---- MODULE Spec2Model ----
(***************************************************************************)
(* Request-scoped structured logging for a FastAPI service:                *)
(*   utils/logger_with_elastic.py   RequestContext, ElasticsearchHandler,  *)
(*                                  FastAPILogger, JsonFormatter           *)
(*   middleware/logging_middleware.py   the request boundary hook          *)
(*   main.py                        application wiring and endpoints       *)
(*                                                                         *)
(* Python values are tagged records, so that dictionaries holding strings, *)
(* None, nested dictionaries and arbitrary objects stay comparable.        *)
(***************************************************************************)
EXTENDS Integers, Sequences, FiniteSets, TLC

\* ------------------------------------------------------------------ bounds
\* Number of requests served concurrently, each in its own task.
NumRequests == 2
\* Facade calls (set_context, debug/info/error) of one run: the two log calls
\* of the hook for every request served, plus the calls the wrapped units of
\* work make.
MaxCalls == 5

Requests == 1..NumRequests

\* ------------------------------------------------------------ Python values
\* A string is the sequence of the pieces it was built from.
Str(s) == [str |-> <<s>>]
\* An f-string: its literal and interpolated pieces, in order.
Text(tokens) == [str |-> tokens]
Num(n) == [int |-> n]
Map(m) == [map |-> m]
\* An object json.dumps cannot serialize.
Obj(n) == [obj |-> n]
None == [none |-> TRUE]

EmptyDict == <<>>

\* dict.update / {**d, **e}: the keys of e overwrite those of d.
DictUpdate(d, e) ==
    [k \in (DOMAIN d) \cup (DOMAIN e) |-> IF k \in DOMAIN e THEN e[k] ELSE d[k]]

\* str(x), f"{x}" and "%s" % x: the pieces of the resulting string.
PyStr(v) ==
    IF "str" \in DOMAIN v THEN v.str
    ELSE IF "int" \in DOMAIN v THEN <<ToString(v.int)>>
    ELSE IF "none" \in DOMAIN v THEN <<"None">>
    ELSE <<"<object>">>

\* x in s, for a piece x of the string s.
Contains(s, x) == \E i \in DOMAIN s.str : s.str[i] = x

\* ------------------------------------------------------------------- clock
\* datetime.utcnow().isoformat() when the module is imported, and afterwards.
ImportTime == Str("2026-01-01T00:00:00")
utcnow == Str("2026-01-01T00:00:01")
\* utcnow().strftime('%Y.%m.%d')
utcdate == "2026.01.01"

\* ---------------------------------------------------------- RequestContext
\* The dataclass's field defaults.
ContextDefaults ==
    [timestamp |-> None, request_id |-> Str("-"), user_id |-> Str("-"),
     service |-> Str("-"), environment |-> Str("development"), extra |-> None]

\* RequestContext(**kwargs): the generated __init__, then __post_init__.
RequestContext(kwargs, now) ==
    LET c == DictUpdate(ContextDefaults, kwargs)
    IN [c EXCEPT !["timestamp"] = IF @ = None THEN now ELSE @]

\* RequestContext.as_dict: the fields whose value is not None.
as_dict(context) ==
    LET keep == {k \in DOMAIN context : context[k] # None}
    IN [k \in keep |-> context[k]]

\* The class-level default of the ContextVar, built once at import.
DefaultContext == RequestContext(EmptyDict, ImportTime)

\* The module-level logger instance's configuration.
service_name == Str("your-service-name")
environment == Str("development")
LoggerName == "utils.logger_with_elastic"
index_prefix == "fastapi-logs"


\* ----------------------------------------------------------------- inputs
\* The incoming requests the hook reads method and path from: the routes of
\* main.py, one per request served.
HttpRequests ==
    <<[method |-> "GET", path |-> "/ping"], [method |-> "POST", path |-> "/test-log"],
      [method |-> "GET", path |-> "/test-es"], [method |-> "GET", path |-> "/ping"]>>

\* uuid.uuid4() rendered and cut to 8 characters: a fresh id per request (the
\* ids of different requests are taken to differ).
RequestIds == <<"aaa11111", "bbb22222", "ccc33333", "ddd44444">>
uuid4(r) == Str(RequestIds[r])

\* Status codes of the responses a wrapped unit of work returns.
StatusCodes == {200}

\* Errors a wrapped unit of work raises.
Errors ==
    {[type |-> "ValueError", text |-> "x"], [type |-> "RuntimeError", text |-> "y"]}

\* Keyword arguments application code passes to set_context.
SetContextKwargs ==
    {[user_id |-> Str("u1")],
     [extra |-> Map([obj |-> Obj("socket")])],
     [service |-> Str("other")]}

\* Level and extra= mapping of the log calls application code makes.
AppCalls ==
    {[level |-> "INFO", extra |-> EmptyDict],
     [level |-> "DEBUG", extra |-> EmptyDict],
     [level |-> "ERROR", extra |-> [request_id |-> Str("mine"), k |-> Str("v")]],
     [level |-> "INFO", extra |-> [message |-> Str("m")]]}

\* ---------------------------------------------------------------- variables
VARIABLES
    ctxvar,      \* FastAPILogger._context_var: the value each task's context holds
    lastSet,     \* per task, the context it last passed to set (history)
    lastKwargs,  \* per task, the kwargs of its last set_context call (history)
    pc,          \* per request, where the hook is
    request,     \* per request, the Request the hook was called with
    request_id,  \* per request, the id the hook generated
    appCalls,    \* facade calls made so far by the wrapped units of work
    appResult,   \* per request, what call_next produced
    outcome,     \* per request, what left the hook
    records,     \* the LogRecords the logger made, in call order (history)
    textFile,    \* var/logs/app.log
    jsonFile,    \* var/logs/app.json.log
    console,     \* sys.stdout, as written by the console handler
    stderr,      \* sys.stderr
    coroutines,  \* coroutine objects created and never awaited
    esIndex,     \* documents indexed in Elasticsearch
    esInstalled  \* whether _setup_elasticsearch added the handler

vars ==
    <<ctxvar, lastSet, lastKwargs, pc, request, request_id, appCalls, appResult, outcome,
      records, textFile, jsonFile, console, stderr, coroutines, esIndex,
      esInstalled>>

requestVars == <<pc, request, request_id, appCalls, appResult, outcome>>
logVars == <<records, textFile, jsonFile, console, stderr, coroutines, esIndex>>

\* Each request is served by the hook's task; call_next runs the wrapped unit
\* of work in a child task (BaseHTTPMiddleware), which starts with a copy of
\* the hook's context. The main task (lifespan, background work) runs outside
\* every request boundary and never calls set_context.
MainTask == <<0, "main">>
Tasks == (Requests \X {"hook", "app"}) \cup {MainTask}
HookTask(r) == <<r, "hook">>
AppTask(r) == <<r, "app">>

\* ------------------------------------------------------------- ContextVar
ContextVarGet(cv, task) == cv[task]

\* A single variable shared by every task instead of a ContextVar.
ContextVarSetShared(cv, task, context) == [t \in DOMAIN cv |-> context]

ContextVarSet(cv, task, context) == [cv EXCEPT ![task] = context]

\* asyncio creates the child task with copy_context().
CopyContext(cv, parent, child) == [cv EXCEPT ![child] = cv[parent]]

\* ------------------------------------------------------------ FastAPILogger
\* set_context raises TypeError when kwargs repeats service or environment.
SetContextRaises(kwargs) == (DOMAIN kwargs) \cap {"service", "environment"} # {}

\* TypeError: RequestContext() got multiple values for keyword argument.
SetContextError ==
    [type |-> "TypeError", text |-> "got multiple values for keyword argument"]

\* set_context: RequestContext(service=..., environment=..., **kwargs).
NewContext(kwargs) ==
    RequestContext(
        DictUpdate([service |-> service_name, environment |-> environment], kwargs),
        utcnow)

\* _get_log_args: extra = kwargs.pop('extra', {}); extra.update(context.as_dict()).
get_log_args(callExtra, context) == DictUpdate(callExtra, as_dict(context))

\* ------------------------------------------------------ logging.LogRecord
LevelNo(levelname) ==
    CASE levelname = "DEBUG" -> 10
      [] levelname = "INFO" -> 20
      [] levelname = "ERROR" -> 40

\* Logger.makeRecord refuses extra keys that would overwrite these.
ReservedRecordKeys ==
    {"message", "asctime", "name", "msg", "args", "levelname", "levelno",
     "pathname", "filename", "module", "exc_info", "exc_text", "stack_info",
     "lineno", "funcName", "created", "msecs", "relativeCreated", "thread",
     "threadName", "processName", "process"}

MakeRecordRaises(extra) == (DOMAIN extra) \cap ReservedRecordKeys # {}

\* raise KeyError("Attempt to overwrite %r in LogRecord" % key)
MakeRecordError == [type |-> "KeyError", text |-> "Attempt to overwrite in LogRecord"]

\* Logger.makeRecord: every key of extra becomes an attribute of the record.
makeRecord(levelname, msg, extra, exc_info) ==
    [name |-> LoggerName, levelname |-> levelname, msg |-> msg,
     exc_info |-> exc_info, attrs |-> extra]

\* exc_info left out of the call.
ExcInfoOmitted(e) == None

\* exc_info=True inside an except block: the exception being handled.
ExcInfo(e) == [exc |-> e]

\* Formatter.formatException: the rendered traceback.
formatException(exc_info) ==
    Text(<<"Traceback (most recent call last):", exc_info.exc.type, ": ",
           exc_info.exc.text>>)


\* ------------------------------------------------------------- formatters
\* get_formatter(): '%(asctime)s - %(levelname)s - [SERVICE:%(service)s]
\* [ENV:%(environment)s][REQ:%(request_id)s][USER:%(user_id)s] - %(name)s -
\* %(message)s'. Formatting fails when the record lacks one of the fields.
LineFields == {"service", "environment", "request_id", "user_id"}

LineFormatRaises(record) == ~(LineFields \subseteq DOMAIN record.attrs)

LineFormat(record) ==
    [asctime |-> utcnow,
     levelname |-> record.levelname,
     service |-> PyStr(record.attrs["service"]),
     environment |-> PyStr(record.attrs["environment"]),
     request_id |-> PyStr(record.attrs["request_id"]),
     user_id |-> PyStr(record.attrs["user_id"]),
     name |-> record.name,
     message |-> record.msg,
     exc_text |-> IF record.exc_info = None THEN None
                  ELSE formatException(record.exc_info)]

\* JsonFormatter.format, up to json.dumps: the log_data dictionary.
JsonLogData(record) ==
    LET base == [timestamp |-> utcnow, level |-> Str(record.levelname),
                 message |-> record.msg, logger |-> Str(record.name)]
        withExtra == IF "extra" \in DOMAIN record.attrs
                     THEN DictUpdate(base, record.attrs["extra"].map)
                     ELSE base
    IN IF record.exc_info # None
       THEN DictUpdate(withExtra, [exception |-> formatException(record.exc_info)])
       ELSE withExtra

\* json.dumps accepts str, int, None and dicts of those.
RECURSIVE JsonSerializable(_)
JsonSerializable(v) ==
    IF "map" \in DOMAIN v
    THEN \A k \in DOMAIN v.map : JsonSerializable(v.map[k])
    ELSE "obj" \notin DOMAIN v

\* json.dumps of one value: a JSON string, number, null or object.
RECURSIVE ToJson(_)
ToJson(v) ==
    IF "str" \in DOMAIN v THEN [jstring |-> v.str]
    ELSE IF "int" \in DOMAIN v THEN [jnumber |-> v.int]
    ELSE IF "none" \in DOMAIN v THEN [jnull |-> TRUE]
    ELSE [jobject |-> [k \in DOMAIN v.map |-> ToJson(v.map[k])]]

json_dumps(d) == [k \in DOMAIN d |-> ToJson(d[k])]

\* json.loads of one JSON value.
RECURSIVE FromJson(_)
FromJson(j) ==
    IF "jstring" \in DOMAIN j THEN [str |-> j.jstring]
    ELSE IF "jnumber" \in DOMAIN j THEN Num(j.jnumber)
    ELSE IF "jnull" \in DOMAIN j THEN None
    ELSE Map([k \in DOMAIN j.jobject |-> FromJson(j.jobject[k])])

json_loads(text) == [k \in DOMAIN text |-> FromJson(text[k])]

\* JsonFormatter.format raises when record.extra is no mapping (dict.update)
\* or when json.dumps meets a value it cannot serialize.
JsonFormatRaises(record) ==
    \/ /\ "extra" \in DOMAIN record.attrs
       /\ "map" \notin DOMAIN record.attrs["extra"]
    \/ \E k \in DOMAIN JsonLogData(record) : ~JsonSerializable(JsonLogData(record)[k])

JsonFormat(record) == json_dumps(JsonLogData(record))

\* ------------------------------------------------------ ElasticsearchHandler
\* emit, lines 40-45: the document the body would build.
log_entry(record) ==
    DictUpdate(
        [timestamp |-> utcnow, level |-> Str(record.levelname), message |-> record.msg],
        IF "extra" \in DOMAIN record.attrs THEN record.attrs["extra"].map ELSE EmptyDict)

\* emit, line 47: f"{index_prefix}-{utcnow:%Y.%m.%d}".
index_name == <<index_prefix, "-", utcdate>>

\* emit is declared `async def`: Handler.handle calls it as a plain function,
\* which creates a coroutine object and runs none of its body. Nothing awaits
\* or schedules that object.
emit(record) == [coroutine |-> "ElasticsearchHandler.emit", record |-> record]

\* ----------------------------------------------------------------- handlers
\* logger.handlers, in the order _configure_logger and _setup_elasticsearch
\* added them.
Handlers(installed) ==
    <<"file", "json", "console">> \o (IF installed THEN <<"elastic">> ELSE <<>>)

\* setLevel of each handler; the Elasticsearch handler keeps NOTSET.
HandlerLevel(h) ==
    CASE h = "file" -> 20
      [] h = "json" -> 20
      [] h = "console" -> 10
      [] h = "elastic" -> 0

\* Handler.handle is entered when the record's level reaches the handler's.
Handles(h, record) == LevelNo(record.levelname) >= HandlerLevel(h)

\* A synchronous emit without the try/except, the store being unreachable.
ElasticEmitRaisesSync(record) == TRUE

\* ElasticsearchHandler.emit, called by Handler.handle: it returns the
\* coroutine object and raises nothing, whatever the state of the store.
ElasticEmitRaises(record) == FALSE

\* Whether the handler's emit meets an exception on the record: the formatter's
\* for the file, JSON and console handlers.
EmitRaises(h, record) ==
    CASE h \in {"file", "console"} -> LineFormatRaises(record)
      [] h = "json" -> JsonFormatRaises(record)
      [] h = "elastic" -> ElasticEmitRaises(record)

\* StreamHandler.emit and BaseRotatingHandler.emit catch every Exception of
\* formatting and writing and pass it to handleError, which reports on
\* sys.stderr. Handler.handle and Logger.callHandlers catch nothing, so an
\* exception leaving the Elasticsearch handler's own emit would reach the
\* caller of the log call.
EmitPropagates(h) == h = "elastic"

\* callHandlers reaches the i-th handler unless an earlier one raised.
Reached(hs, i, record) ==
    \A j \in 1..(i - 1) :
        ~(Handles(hs[j], record) /\ EmitRaises(hs[j], record) /\ EmitPropagates(hs[j]))

\* The handler is given the record and writes it.
Writes(hs, h, record) ==
    \E i \in DOMAIN hs :
        /\ hs[i] = h
        /\ Reached(hs, i, record)
        /\ Handles(h, record)
        /\ ~EmitRaises(h, record)

\* The handler is given the record and its emit fails.
Fails(hs, h, record) ==
    \E i \in DOMAIN hs :
        /\ hs[i] = h
        /\ Reached(hs, i, record)
        /\ Handles(h, record)
        /\ EmitRaises(h, record)

\* The logging call raises to its caller.
CallRaises(hs, record) == \E i \in DOMAIN hs : Fails(hs, hs[i], record) /\ EmitPropagates(hs[i])


\* ------------------------------------------------------------- the facade
\* What handleError writes on sys.stderr for the handlers whose emit failed.
HandleErrorOutput(hs, record, n) ==
    LET report(h) == IF Fails(hs, h, record) /\ ~EmitPropagates(h)
                     THEN <<[n |-> n, handler |-> h, out |-> "--- Logging error ---"]>>
                     ELSE <<>>
    IN report("file") \o report("json") \o report("console")

\* A sink that puts the newest entry first.
DeliverFirst(sink, entry) == <<entry>> \o sink

\* log calls log_method(message, extra=extra) as a plain function: every
\* handler's emit runs inside the call, before log returns or suspends, so
\* what it writes follows everything earlier calls wrote to the same sink.
Deliver(sink, entry) == Append(sink, entry)

\* FastAPILogger.log (through info / error / debug): _get_log_args with the
\* context the calling task's ContextVar holds, then Logger.<level>(message,
\* extra=extra), which makes the record and calls the handlers. n, req, task,
\* kind, callExtra, context and raised are history. callExtra is the caller's
\* mapping when the call was made (empty: no extra= was passed); extraAfter
\* is that same dict object when the call returns, after kwargs.pop('extra')
\* handed it to extra.update(...); installed tells whether the remote handler
\* was among the logger's handlers at the call.
LogCall(context, task, r, kind, levelname, msg, callExtra, exc_info) ==
    LET extra == get_log_args(callExtra, context)
        record == makeRecord(levelname, msg, extra, exc_info)
        n == Len(records) + 1
        hs == Handlers(esInstalled)
    IN /\ records' = Append(records,
                        [n |-> n, req |-> r, task |-> task, kind |-> kind,
                         record |-> record, callExtra |-> callExtra,
                         extraAfter |-> extra, installed |-> esInstalled,
                         context |-> context, raised |-> CallRaises(hs, record)])
       /\ textFile' = IF Writes(hs, "file", record)
                      THEN Deliver(textFile, [n |-> n, out |-> LineFormat(record)])
                      ELSE textFile
       /\ jsonFile' = IF Writes(hs, "json", record)
                      THEN Deliver(jsonFile, [n |-> n, out |-> JsonFormat(record)])
                      ELSE jsonFile
       /\ console' = IF Writes(hs, "console", record)
                     THEN Deliver(console, [n |-> n, out |-> LineFormat(record)])
                     ELSE console
       /\ stderr' = stderr \o HandleErrorOutput(hs, record, n)
       /\ coroutines' = IF Writes(hs, "elastic", record)
                        THEN Deliver(coroutines, [n |-> n, out |-> emit(record)])
                        ELSE coroutines
       /\ UNCHANGED esIndex

\* ------------------------------------------------------------------ budget
Started == Cardinality({r \in Requests : pc[r] # "idle"})
\* Every started request keeps room for the hook's two log calls.
RoomForRequest == 2 * (Started + 1) + appCalls <= MaxCalls
RoomForAppCall == 2 * Started + appCalls + 1 <= MaxCalls

\* -------------------------------------------------------------------- Init
Init ==
    /\ ctxvar = [t \in Tasks |-> DefaultContext]
    /\ lastSet = [t \in Tasks |-> DefaultContext]
    /\ lastKwargs = [t \in Tasks |-> None]
    /\ pc = [r \in Requests |-> "idle"]
    /\ request = [r \in Requests |-> None]
    /\ request_id = [r \in Requests |-> None]
    /\ appCalls = 0
    /\ appResult = [r \in Requests |-> None]
    /\ outcome = [r \in Requests |-> None]
    /\ records = <<>>
    /\ textFile = <<>>
    /\ jsonFile = <<>>
    /\ console = <<>>
    /\ stderr = <<>>
    /\ coroutines = <<>>
    /\ esIndex = <<>>
    /\ esInstalled = FALSE

\* ----------------------------------------------------------------- startup
\* lifespan -> _setup_elasticsearch: the client is built and the handler is
\* added before the first request is served.
SetupElasticsearch ==
    /\ ~esInstalled
    /\ \A r \in Requests : pc[r] = "idle"
    /\ esInstalled' = TRUE
    /\ UNCHANGED <<ctxvar, lastSet, lastKwargs, requestVars, logVars>>

\* ---------------------------------------------------------------- the hook
\* The wrapped unit of work of request r is running.
AppRunning(r) == pc[r] = "in_flight" /\ appResult[r] = None

\* The extra mapping the hook puts in the context.
HookExtra(req) == [path |-> Str(req.path), method |-> Str(req.method)]

\* An except block that ends without `raise`: the framework answers 500.
HookFailureSwallowed(e) == [status |-> 500]

\* What leaves the hook after the except block: the bare `raise`.
HookFailureOutcome(e) == [raise |-> e]

\* Requests are numbered in the order the hook is entered for them.
\* Lines 7-20, run without suspension: generate the id, set the context, log
\* "Request started" (the facade's coroutines never yield to the event loop),
\* then call_next starts the wrapped unit of work in a child task.
HookStart(r) ==
    /\ pc[r] = "idle"
    /\ \A q \in Requests : q < r => pc[q] # "idle"
    /\ RoomForRequest
    /\ \E req \in {HttpRequests[r]} :
        LET id == uuid4(r)
            kwargs == [request_id |-> id, extra |-> Map(HookExtra(req))]
            context == NewContext(kwargs)
            cv == ContextVarSet(ctxvar, HookTask(r), context)
        IN /\ request' = [request EXCEPT ![r] = req]
           /\ request_id' = [request_id EXCEPT ![r] = id]
           /\ LogCall(ContextVarGet(cv, HookTask(r)), HookTask(r), r, "started", "INFO",
                      Text(<<"Request started - ", req.method, " ", req.path>>),
                      EmptyDict, None)
           /\ ctxvar' = CopyContext(cv, HookTask(r), AppTask(r))
           /\ lastSet' = [lastSet EXCEPT ![HookTask(r)] = context, ![AppTask(r)] = context]
           /\ lastKwargs' = [lastKwargs EXCEPT ![HookTask(r)] = kwargs]
    /\ pc' = [pc EXCEPT ![r] = "in_flight"]
    /\ UNCHANGED <<appCalls, appResult, outcome, esInstalled>>

\* Lines 20-32: the wrapped unit of work returns and call_next yields its
\* response; set the context again, now with the status code, log "Request
\* completed" and return the response.
HookComplete(r) ==
    /\ AppRunning(r)
    /\ \E status \in StatusCodes :
       LET kwargs == [request_id |-> request_id[r],
                      extra |-> Map(DictUpdate(HookExtra(request[r]),
                                               [status_code |-> Num(status)]))]
           context == NewContext(kwargs)
           cv == ContextVarSet(ctxvar, HookTask(r), context)
       IN /\ ctxvar' = cv
          /\ lastSet' = [lastSet EXCEPT ![HookTask(r)] = context]
          /\ lastKwargs' = [lastKwargs EXCEPT ![HookTask(r)] = kwargs]
          /\ LogCall(ContextVarGet(cv, HookTask(r)), HookTask(r), r, "completed", "INFO",
                     Text(<<"Request completed - ", request[r].method, " ",
                            request[r].path, "- Status: ", ToString(status)>>),
                     EmptyDict, None)
          /\ appResult' = [appResult EXCEPT ![r] = [status |-> status]]
          /\ outcome' = [outcome EXCEPT ![r] = [status |-> status]]
    /\ pc' = [pc EXCEPT ![r] = "done"]
    /\ UNCHANGED <<request, request_id, appCalls, esInstalled>>

\* The errors call_next can raise in the hook: the one the wrapped unit of work
\* already raised (after logging it, or out of a facade call), else any.
CallNextErrors(r) ==
    IF appResult[r] = None THEN Errors
    ELSE IF "raise" \in DOMAIN appResult[r] THEN {appResult[r].raise}
    ELSE {}

\* An except clause that does not match the error: it leaves the hook unlogged.
HookFailUnlogged(r) ==
    /\ pc[r] = "in_flight"
    /\ \E e \in CallNextErrors(r) :
        /\ appResult' = [appResult EXCEPT ![r] = [raise |-> e]]
        /\ outcome' = [outcome EXCEPT ![r] = [raise |-> e]]
    /\ pc' = [pc EXCEPT ![r] = "done"]
    /\ UNCHANGED <<ctxvar, lastSet, lastKwargs, request, request_id, appCalls, logVars,
                   esInstalled>>

\* Lines 20 and 33-38: the wrapped unit of work raises an Exception and
\* call_next re-raises it in the hook; log "Request failed" with exc_info=True
\* and re-raise.
HookFail(r) ==
    /\ pc[r] = "in_flight"
    /\ \E e \in CallNextErrors(r) :
        /\ LogCall(ContextVarGet(ctxvar, HookTask(r)), HookTask(r), r, "failed", "ERROR",
                   Text(<<"Request failed - ", request[r].method, " ", request[r].path>>),
                   EmptyDict, ExcInfo(e))
        /\ appResult' = [appResult EXCEPT ![r] = [raise |-> e]]
        /\ outcome' = [outcome EXCEPT ![r] = HookFailureOutcome(e)]
    /\ pc' = [pc EXCEPT ![r] = "done"]
    /\ UNCHANGED <<ctxvar, lastSet, lastKwargs, request, request_id, appCalls, esInstalled>>

\* asyncio.CancelledError, a BaseException (Python 3.8 and later).
CancelledError == [type |-> "CancelledError", text |-> ""]

\* Lines 18-38 when the request is cancelled while the hook awaits call_next:
\* CancelledError is raised at line 20; `except Exception` does not match a
\* BaseException, so the except block is skipped and the cancellation leaves
\* the hook with nothing logged. The wrapped unit of work is cancelled with it.
HookCancelled(r) ==
    /\ AppRunning(r)
    /\ appResult' = [appResult EXCEPT ![r] = [cancelled |-> TRUE]]
    /\ outcome' = [outcome EXCEPT ![r] = [raise |-> CancelledError]]
    /\ pc' = [pc EXCEPT ![r] = "done"]
    /\ UNCHANGED <<ctxvar, lastSet, lastKwargs, request, request_id, appCalls, logVars,
                   esInstalled>>

\* ------------------------------------------------- the wrapped unit of work
\* logger.set_context(**kwargs) in an endpoint (main.py: user_id=...).
AppSetContext(r) ==
    /\ AppRunning(r)
    /\ RoomForAppCall
    /\ \E kwargs \in SetContextKwargs :
        /\ IF SetContextRaises(kwargs)
           THEN /\ appResult' = [appResult EXCEPT ![r] = [raise |-> SetContextError]]
                /\ UNCHANGED <<ctxvar, lastSet>>
           ELSE /\ ctxvar' = ContextVarSet(ctxvar, AppTask(r), NewContext(kwargs))
                /\ lastSet' = [lastSet EXCEPT ![AppTask(r)] = NewContext(kwargs)]
                /\ UNCHANGED appResult
        /\ lastKwargs' = [lastKwargs EXCEPT ![AppTask(r)] = kwargs]
    /\ appCalls' = appCalls + 1
    /\ UNCHANGED <<pc, request, request_id, outcome, logVars, esInstalled>>

\* await logger.info / debug / error(message, extra=...) in an endpoint.
AppLog(r) ==
    /\ AppRunning(r)
    /\ RoomForAppCall
    /\ \E call \in AppCalls :
        IF MakeRecordRaises(get_log_args(call.extra, ContextVarGet(ctxvar, AppTask(r))))
        THEN /\ appResult' = [appResult EXCEPT ![r] =
                                 [raise |-> MakeRecordError]]
             /\ UNCHANGED logVars
        ELSE /\ LogCall(ContextVarGet(ctxvar, AppTask(r)), AppTask(r), r, "app", call.level, Text(<<"app message">>),
                        call.extra, None)
             /\ UNCHANGED appResult
    /\ appCalls' = appCalls + 1
    /\ UNCHANGED <<ctxvar, lastSet, lastKwargs, pc, request, request_id, outcome,
                   esInstalled>>

\* main.py test_logging, lines 67-77: the endpoint raises, logs the error
\* itself with exc_info=True, and re-raises.
AppLogAndRaise(r) ==
    /\ AppRunning(r)
    /\ RoomForAppCall
    /\ \E e \in Errors :
        /\ LogCall(ContextVarGet(ctxvar, AppTask(r)), AppTask(r), r, "app", "ERROR", Text(<<"error: ", e.text>>),
                   EmptyDict, ExcInfo(e))
        /\ appResult' = [appResult EXCEPT ![r] = [raise |-> e]]
    /\ appCalls' = appCalls + 1
    /\ UNCHANGED <<ctxvar, lastSet, lastKwargs, pc, request, request_id, outcome,
                   esInstalled>>

\* ------------------------------------------------------------ the main task
\* await logger.info(message) in a unit of work that never called
\* set_context: _context_var.get() returns the class-level default.
MainLog ==
    /\ RoomForAppCall
    /\ LogCall(ContextVarGet(ctxvar, MainTask), MainTask, 0, "main", "INFO",
               Text(<<"main message">>), EmptyDict, None)
    /\ appCalls' = appCalls + 1
    /\ UNCHANGED <<ctxvar, lastSet, lastKwargs, pc, request, request_id, appResult,
                   outcome, esInstalled>>

\* -------------------------------------------------------------------- Next
Next ==
    \/ SetupElasticsearch
    \/ MainLog
    \/ \E r \in Requests : HookStart(r)
    \/ \E r \in Requests : HookComplete(r)
    \/ \E r \in Requests : HookFail(r)
    \/ \E r \in Requests : HookCancelled(r)
    \/ \E r \in Requests : AppSetContext(r)
    \/ \E r \in Requests : AppLog(r)
    \/ \E r \in Requests : AppLogAndRaise(r)

Spec == Init /\ [][Next]_vars


\* ====================================================================
\* Properties
\* ====================================================================
\* The id the hook generated for the request a record belongs to; None for a
\* record of the main task.
RequestIdOf(r) == IF r \in Requests THEN request_id[r] ELSE None

RecordIndexes(r, kinds) ==
    {i \in DOMAIN records : records[i].req = r /\ records[i].kind \in kinds}

Raised(r) == appResult[r] # None /\ "raise" \in DOMAIN appResult[r]
Returned(r) == appResult[r] # None /\ "status" \in DOMAIN appResult[r]

CallSiteWins ==
    \A i \in DOMAIN records :
        \A k \in DOMAIN records[i].callExtra :
            records[i].record.attrs[k] = records[i].callExtra[k]

\* C3: request state machine. A request logs at most one "Request started"
\* (INFO) and at most one terminal record, the terminal record comes after the
\* start record, and once the hook has been left after the wrapped unit of work
\* returned or raised there is exactly one terminal record: "Request completed"
\* (INFO) after a response, "Request failed" (ERROR) after an error.
RequestStateMachine ==
    \A r \in Requests :
        LET started == RecordIndexes(r, {"started"})
            completed == RecordIndexes(r, {"completed"})
            failed == RecordIndexes(r, {"failed"})
        IN /\ Cardinality(started) <= 1
           /\ Cardinality(completed \cup failed) <= 1
           /\ pc[r] # "idle" => Cardinality(started) = 1
           /\ \A i \in started : records[i].record.levelname = "INFO"
           /\ \A i \in completed : records[i].record.levelname = "INFO"
           /\ \A i \in failed : records[i].record.levelname = "ERROR"
           /\ \A t \in completed \cup failed : \E i \in started : i < t
           /\ pc[r] = "done" /\ Returned(r) =>
                 Cardinality(completed) = 1 /\ failed = {}
           /\ pc[r] = "done" /\ Raised(r) =>
                 Cardinality(failed) = 1 /\ completed = {}
           /\ pc[r] # "done" => completed \cup failed = {}

\* C3 witness: one request left the hook after a response and another after
\* an error.
RequestStateMachineWitness ==
    \E r1, r2 \in Requests :
        /\ pc[r1] = "done" /\ Returned(r1)
        /\ pc[r2] = "done" /\ Raised(r2)

\* C4: failure propagation. When call_next raised E and the hook has been
\* left, the hook logged its ERROR record with E as the captured exception and
\* what left the hook is E itself: no response, no other error.
FailurePropagation ==
    \A r \in Requests :
        pc[r] = "done" /\ Raised(r) =>
            /\ outcome[r] = [raise |-> appResult[r].raise]
            /\ \E i \in RecordIndexes(r, {"failed"}) :
                  /\ records[i].record.levelname = "ERROR"
                  /\ records[i].record.exc_info = [exc |-> appResult[r].raise]

\* C4 witness: two requests failed with different errors and each error left
\* its own hook.
FailurePropagationWitness ==
    \E r1, r2 \in Requests :
        /\ pc[r1] = "done" /\ Raised(r1)
        /\ pc[r2] = "done" /\ Raised(r2)
        /\ outcome[r1] # outcome[r2]


ErrorRecords(r, kinds) ==
    {i \in RecordIndexes(r, kinds) : records[i].record.levelname = "ERROR"}

\* The exception field of a record as the formatters render it, None when no
\* exception was captured.
ExceptionField(record) ==
    IF record.exc_info = None THEN None ELSE formatException(record.exc_info)

\* C5 (as claimed): when the wrapped unit of work raised an error with text x
\* and the hook has been left, the request has exactly one ERROR record, its
\* message contains x and its exception field is non-empty.
OneErrorRecordWithText ==
    \A r \in Requests :
        pc[r] = "done" /\ Raised(r) =>
            LET errs == ErrorRecords(r, {"started", "completed", "failed", "app"})
            IN /\ Cardinality(errs) = 1
               /\ \A i \in errs :
                     /\ Contains(records[i].record.msg, appResult[r].raise.text)
                     /\ ExceptionField(records[i].record) # None
                     /\ Len(ExceptionField(records[i].record).str) > 0

\* C5 (amended): when the wrapped unit of work raised an error with text x and
\* the hook has been left, the hook itself produced exactly one ERROR record
\* for the request; its message is "Request failed - <method> <path>" and its
\* exception field is non-empty and contains x.
HookErrorRecord ==
    \A r \in Requests :
        pc[r] = "done" /\ Raised(r) =>
            LET errs == ErrorRecords(r, {"started", "completed", "failed"})
            IN /\ Cardinality(errs) = 1
               /\ \A i \in errs :
                     /\ records[i].record.msg =
                           Text(<<"Request failed - ", request[r].method, " ",
                                  request[r].path>>)
                     /\ ExceptionField(records[i].record) # None
                     /\ Len(ExceptionField(records[i].record).str) > 0
                     /\ Contains(ExceptionField(records[i].record),
                                 appResult[r].raise.text)
                     /\ LineFormat(records[i].record).exc_text =
                           ExceptionField(records[i].record)

\* C5 witness: a unit of work logged its own error with text x, re-raised, and
\* the hook logged its ERROR record: the request has two ERROR records.
HookErrorRecordWitness ==
    \E r \in Requests :
        /\ pc[r] = "done" /\ Raised(r)
        /\ appResult[r].raise.text = "x"
        /\ Cardinality(ErrorRecords(r, {"failed"})) = 1
        /\ Cardinality(ErrorRecords(r, {"app"})) = 1

\* C6 (as claimed): every record logged while a request is served carries the
\* correlation id the hook generated for that request.
CorrelationIdThreaded ==
    \A i \in DOMAIN records :
        records[i].req \in Requests =>
            records[i].record.attrs["request_id"] = request_id[records[i].req]

\* A record handed to the remote sink was indexed under <prefix>-<YYYY.MM.DD>.
Indexed(n) ==
    \E j \in DOMAIN esIndex : esIndex[j].n = n /\ esIndex[j].index = index_name

\* The remote sink's failure on the record was written to sys.stderr.
DeliveryErrorReported(n) ==
    \E j \in DOMAIN stderr : stderr[j].n = n /\ stderr[j].handler = "elastic"

\* C7 (as claimed): by the time the request that logged it has left the hook,
\* every record handed to the remote sink was either indexed or had its error
\* written to the fallback error stream.
RemoteDeliveryOutcome ==
    \A j \in DOMAIN coroutines :
        /\ records[coroutines[j].n].req \in Requests
        /\ pc[records[coroutines[j].n].req] = "done"
        => Indexed(coroutines[j].n) \/ DeliveryErrorReported(coroutines[j].n)

Range(f) == {f[i] : i \in DOMAIN f}

InSink(h, n) ==
    LET sink == CASE h = "file" -> textFile
                  [] h = "json" -> jsonFile
                  [] h = "console" -> console
                  [] h = "elastic" -> coroutines
    IN \E j \in DOMAIN sink : sink[j].n = n

\* C8: sink independence. For every record on which some sink's emit fails,
\* or which was logged with the remote sink installed, the log call
\* returned normally and every other installed sink whose minimum severity the
\* record satisfies received it.
SinkIndependence ==
    \A i \in DOMAIN records :
        LET e == records[i]
            hs == Range(Handlers(e.installed))
            failing == {h \in hs : Handles(h, e.record) /\ EmitRaises(h, e.record)}
        IN failing # {} \/ e.installed =>
              /\ ~e.raised
              /\ \A h \in hs \ failing : Handles(h, e.record) => InSink(h, e.n)
              /\ \A h \in failing : ~InSink(h, e.n)

\* C8 witness: the JSON formatter failed on a record while the remote sink was
\* installed, and the text file and the console hold the record.
SinkIndependenceWitness ==
    \E i \in DOMAIN records :
        /\ esInstalled
        /\ JsonFormatRaises(records[i].record)
        /\ InSink("file", i) /\ InSink("console", i) /\ InSink("elastic", i)
        /\ ~InSink("json", i)

\* The top-level keys the remote document format names for a record.
RequiredKeys(e) ==
    {"timestamp", "level", "message", "request_id", "user_id", "service",
     "environment"}
    \cup (IF e.context["extra"] # None THEN DOMAIN e.context["extra"].map ELSE {})

\* C9 (as claimed): every document of the JSON file, and every document the
\* remote sink builds, has timestamp, level, message, request_id, user_id,
\* service, environment and the keys of the context's extra at top level.
StructuredDocumentContent ==
    /\ \A j \in DOMAIN jsonFile :
          RequiredKeys(records[jsonFile[j].n]) \subseteq DOMAIN json_loads(jsonFile[j].out)
    /\ \A j \in DOMAIN coroutines :
          RequiredKeys(records[coroutines[j].n])
              \subseteq DOMAIN log_entry(coroutines[j].out.record)

\* C10 (as claimed): the parsed JSON document of a record has exactly the
\* reserved keys plus every key of the merged extra, and no null value.
StructuredRoundTrip ==
    \A j \in DOMAIN jsonFile :
        LET e == records[jsonFile[j].n]
            doc == json_loads(jsonFile[j].out)
        IN /\ DOMAIN doc =
                {"timestamp", "level", "message", "logger"}
                \cup (IF e.record.exc_info # None THEN {"exception"} ELSE {})
                \cup DOMAIN e.record.attrs
           /\ \A k \in DOMAIN doc : doc[k] # None

\* C11 (as claimed): severity filtering. A record is in the text file, the
\* JSON file or the console exactly when its level is at least that sink's
\* minimum (INFO, INFO, DEBUG): a DEBUG record is on the console and in
\* neither file, an INFO or ERROR record is in all three.
SeverityFiltering ==
    \A i \in DOMAIN records :
        \A h \in {"file", "json", "console"} :
            InSink(h, records[i].n) <=> Handles(h, records[i].record)

\* The values of the record's extra that json.dumps cannot serialize.
Unserializable(record) ==
    IF "extra" \in DOMAIN record.attrs /\ "map" \in DOMAIN record.attrs["extra"]
    THEN {k \in DOMAIN record.attrs["extra"].map :
             ~JsonSerializable(record.attrs["extra"].map[k])}
    ELSE {}

\* C12 (as claimed): the structured formatter never fails. For every record
\* given to the JSON handler, format does not raise, nothing is reported on
\* sys.stderr for it, the JSON file holds its document, and every value of its
\* extra that is not JSON-serializable appears there as its string
\* representation.
StructuredFormatterNeverFails ==
    \A i \in DOMAIN records :
        Handles("json", records[i].record) =>
            /\ ~JsonFormatRaises(records[i].record)
            /\ \A j \in DOMAIN stderr : stderr[j].n # records[i].n
            /\ \E j \in DOMAIN jsonFile :
                  /\ jsonFile[j].n = records[i].n
                  /\ \A k \in Unserializable(records[i].record) :
                        /\ k \in DOMAIN jsonFile[j].out
                        /\ jsonFile[j].out[k] =
                              [jstring |-> PyStr(records[i].record.attrs["extra"].map[k])]

\* C13 (as claimed): the facade never raises an error of its own. Whatever the
\* message, the call-site extra and the ambient context, no debug / info /
\* error call raised out of a handler, and no wrapped unit of work was ended by
\* the KeyError of Logger.makeRecord.
FacadeNeverRaises ==
    /\ \A i \in DOMAIN records : ~records[i].raised
    /\ \A r \in Requests : Raised(r) => appResult[r].raise # MakeRecordError

\* The facility defaults overlaid with the supplied fields: every supplied
\* field has the supplied value, service and environment default to the
\* facility's configuration, timestamp to the time of the call, every other
\* field to the dataclass default.
Overlay(fields) ==
    [k \in DOMAIN ContextDefaults |->
        IF k \in DOMAIN fields THEN fields[k]
        ELSE IF k = "service" THEN service_name
        ELSE IF k = "environment" THEN environment
        ELSE IF k = "timestamp" THEN utcnow
        ELSE ContextDefaults[k]]

\* C14 (as claimed): after a task called set_context(fields), its ambient
\* context is the facility defaults overlaid with the supplied fields, a
\* supplied service or environment included, and fields not supplied have
\* their default, not the previous context's value.
SetContextOverlay ==
    \A t \in Tasks :
        lastKwargs[t] # None => ContextVarGet(ctxvar, t) = Overlay(lastKwargs[t])

\* C15 (as claimed): every log call of a unit of work that has not called
\* set_context observes a context, whose service and environment are the
\* facility's configured service_name and environment and whose request_id and
\* user_id are '-'.
DefaultContextObserved ==
    \A i \in DOMAIN records :
        records[i].task = MainTask =>
            /\ records[i].context # None
            /\ records[i].context["service"] = service_name
            /\ records[i].context["environment"] = environment
            /\ records[i].context["request_id"] = Str("-")
            /\ records[i].context["user_id"] = Str("-")

\* The entries of one sink keep the call order of the records of each unit of
\* work: a request (its hook and the unit the hook wraps), or the main task.
InCallOrder(sink) ==
    \A j, k \in DOMAIN sink :
        /\ j < k
        /\ records[sink[j].n].req = records[sink[k].n].req
        => sink[j].n < sink[k].n

\* C16: per-sink ordering. Records are numbered in call order; in the text
\* file, the JSON file, the console, the remote index and the sequence of
\* records handed to the remote handler, two records of the same unit of work
\* appear in the order of their calls, whatever other units logged in between.
PerSinkOrdering ==
    /\ InCallOrder(textFile)
    /\ InCallOrder(jsonFile)
    /\ InCallOrder(console)
    /\ InCallOrder(esIndex)
    /\ InCallOrder(coroutines)

\* C16 witness: the text file, the JSON file and the console hold two records
\* of one unit of work with a record of another unit between them.
PerSinkOrderingWitness ==
    \A sink \in {textFile, jsonFile, console} :
        \E j, k, l \in DOMAIN sink :
            /\ j < k /\ k < l
            /\ records[sink[j].n].req = records[sink[l].n].req
            /\ records[sink[k].n].req # records[sink[j].n].req
            /\ records[sink[j].n].kind = "app"

\* The request was cancelled while its wrapped unit of work was in flight and
\* the cancellation has left the hook.
Cancelled(r) == pc[r] = "done" /\ outcome[r] = [raise |-> CancelledError]

\* C17 (as claimed): when a request was cancelled in flight and the
\* cancellation has left the hook, the hook has logged a "Request failed"
\* ERROR record for that request.
CancellationLogged ==
    \A r \in Requests :
        Cancelled(r) =>
            \E i \in RecordIndexes(r, {"failed"}) :
                records[i].record.levelname = "ERROR"

\* C18 (as claimed): a log call leaves its inputs and the ambient context
\* unchanged. In every step in which a log call returns, the mapping the
\* caller supplied as extra= has the same keys and values after the call as
\* before it, and the calling task's ambient context after the call is the
\* context the call observed.
LogCallFrame ==
    [][Len(records') > Len(records) =>
          LET e == records'[Len(records')]
          IN /\ e.callExtra # EmptyDict => e.extraAfter = e.callExtra
             /\ ContextVarGet(ctxvar', e.task) = e.context]_vars

====
